---- MODULE Spec2Model ----
(***************************************************************************)
(* fetchSources of src/api/server.ts: option resolution, the query loop    *)
(* against the search provider, scoring, ranking and the self-retry.       *)
(*                                                                         *)
(* Strings are sequences of one-character strings, so that replace, trim,  *)
(* split, toLowerCase, includes and URL parsing are computed.  An optional *)
(* value (a field that may be undefined) is a sequence of length 0 or 1:   *)
(* None is undefined, Some(v) a present value.  relevanceScore is kept in  *)
(* half points (the code adds 0.5 for a keyword found in the snippet), so  *)
(* every score of the model is twice the score of the code.                *)
(***************************************************************************)
EXTENDS Integers, Sequences, FiniteSets, TLC

VARIABLES pages, claim, options, config, cleanedClaim, searchQueries, qi,
          allResults, responses, pc, outcome, result, depth

vars == <<pages, claim, options, config, cleanedClaim, searchQueries, qi,
          allResults, responses, pc, outcome, result, depth>>

None == <<>>
Some(v) == <<v>>

\* ------------------------------------------------------------------ bounds
\* Longest organic_results list the provider answers with.
MaxResults == 2
\* Largest maxSources a caller supplies.
MaxSourcesOpt == 2
\* Largest retryCount a caller supplies.
MaxRetryOpt == 2
\* Largest currentRetry a caller supplies.
MaxCurrentRetryOpt == 2

\* ------------------------------------------------------------- characters
LowerCase == <<"a","b","c","d","e","f","g","h","i","j","k","l","m","n","o","p","q","r","s","t","u","v","w","x","y","z">>
UpperCase == <<"A","B","C","D","E","F","G","H","I","J","K","L","M","N","O","P","Q","R","S","T","U","V","W","X","Y","Z">>
Digits == <<"0","1","2","3","4","5","6","7","8","9">>

Range(s) == {s[i] : i \in 1..Len(s)}

LowerSet == Range(LowerCase)
UpperSet == Range(UpperCase)
DigitSet == Range(Digits)
WordChars == LowerSet \cup UpperSet \cup DigitSet \cup {"_"}

\* \w of a JavaScript regular expression.
IsWordChar(c) == c \in WordChars

\* \s of a JavaScript regular expression (the space is the only one used).
IsSpaceChar(c) == c = " "

LowerOf == [c \in UpperSet |-> LowerCase[CHOOSE i \in 1..Len(UpperCase) : UpperCase[i] = c]]

ToLowerChar(c) == IF c \in UpperSet THEN LowerOf[c] ELSE c

\* F applied to the value of x: x is evaluated once, however often F uses
\* its argument.
Once(F(_), x) == CHOOSE y \in {F(v) : v \in {x}} : TRUE

\* The least and the greatest member of a set of numbers, 0 for the empty set.
Least(S) ==
  Once(LAMBDA T : IF T = {} THEN 0 ELSE CHOOSE i \in T : \A j \in T : i <= j, S)
Greatest(S) ==
  Once(LAMBDA T : IF T = {} THEN 0 ELSE CHOOSE i \in T : \A j \in T : i >= j, S)

\* String.prototype.toLowerCase
ToLowerCase(s) == Once(LAMBDA str : [i \in 1..Len(str) |-> ToLowerChar(str[i])], s)

\* Least index at which pat occurs in s, 0 when it does not occur.
IndexOf(s, pat) ==
  Once(LAMBDA str :
         Least({i \in 1..(Len(str) - Len(pat) + 1) : SubSeq(str, i, i + Len(pat) - 1) = pat}),
       s)

\* String.prototype.includes
Includes(s, pat) == IndexOf(s, pat) # 0

\* The part of s before its index i, and the part from its index i on.
Before(s, i) == SubSeq(s, 1, i - 1)
From(s, i) == Once(LAMBDA str : SubSeq(str, i, Len(str)), s)

\* String.prototype.replace with a string pattern: the first occurrence only,
\* wherever it is.
ReplaceFirst(s, pat, rep) ==
  Once(LAMBDA str :
         Once(LAMBDA i : IF i = 0 THEN str
                         ELSE Before(str, i) \o rep \o From(str, i + Len(pat)),
              IndexOf(str, pat)),
       s)

StartsWith(s, pat) ==
  Once(LAMBDA str : Len(str) >= Len(pat) /\ SubSeq(str, 1, Len(pat)) = pat, s)

\* claim.replace(/[^\w\s]/gi, " ")
ReplaceNonWord(s) ==
  Once(LAMBDA str :
         [i \in 1..Len(str) |->
            IF IsWordChar(str[i]) \/ IsSpaceChar(str[i]) THEN str[i] ELSE " "],
       s)

\* String.prototype.trim
Trim(s) ==
  Once(LAMBDA str :
         Once(LAMBDA keep : IF keep = {} THEN <<>>
                            ELSE SubSeq(str, Least(keep), Greatest(keep)),
              {i \in 1..Len(str) : ~IsSpaceChar(str[i])}),
       s)

\* String.prototype.split(" "): every piece between two separators, the empty
\* ones included.
RECURSIVE Split(_)
Split(s) ==
  Once(LAMBDA str :
         Once(LAMBDA i : IF i = 0 THEN <<str>>
                         ELSE <<Before(str, i)>> \o Split(From(str, i + 1)),
              IndexOf(str, <<" ">>)),
       s)

CleanClaim(c) == Trim(ReplaceNonWord(c))

LongWord(w) == Len(w) > 3

\* cleanedClaim.toLowerCase().split(" ").filter(word => word.length > 3)
Keywords(cleaned) == SelectSeq(Split(ToLowerCase(cleaned)), LongWord)

\* ------------------------------------------------------------------- URLs
HttpsScheme == <<"h","t","t","p","s",":","/","/">>
HttpScheme == <<"h","t","t","p",":","/","/">>

HostChars == LowerSet \cup UpperSet \cup DigitSet \cup {".", "-"}

AfterScheme(link) ==
  IF StartsWith(link, HttpsScheme) THEN From(link, Len(HttpsScheme) + 1)
  ELSE IF StartsWith(link, HttpScheme) THEN From(link, Len(HttpScheme) + 1)
  ELSE <<>>

\* The authority of an http(s) link: what follows the scheme, up to the path.
HostPart(link) ==
  Once(LAMBDA rest :
         Once(LAMBDA i : IF i = 0 THEN rest ELSE Before(rest, i), IndexOf(rest, <<"/">>)),
       AfterScheme(link))

\* new URL(link) returns (TRUE) or throws a TypeError (FALSE).  Links are
\* http(s) links without port or credentials: the link parses when it has the
\* scheme and a host made of host characters.
URLParses(link) ==
  Once(LAMBDA host : host # <<>> /\ \A i \in 1..Len(host) : host[i] \in HostChars,
       HostPart(link))

\* new URL(link).hostname: the parser lower-cases the host.
URLHostname(link) == ToLowerCase(HostPart(link))

Www == <<"w","w","w",".">>

\* url.hostname.replace('www.', '')
CleanDomain(hostname) == ReplaceFirst(hostname, Www, <<>>)

trustedFactCheckDomains == {
    <<"f","a","c","t","c","h","e","c","k",".","o","r","g">>,
    <<"p","o","l","i","t","i","f","a","c","t",".","c","o","m">>,
    <<"s","n","o","p","e","s",".","c","o","m">>,
    <<"r","e","u","t","e","r","s",".","c","o","m","/","f","a","c","t","-","c","h","e","c","k">>,
    <<"a","p","n","e","w","s",".","c","o","m","/","h","u","b","/","f","a","c","t","-","c","h","e","c","k","i","n","g">>,
    <<"b","b","c",".","c","o","m","/","n","e","w","s","/","r","e","a","l","i","t","y","_","c","h","e","c","k">>,
    <<"f","u","l","l","f","a","c","t",".","o","r","g">>,
    <<"f","a","c","t","c","h","e","c","k",".","a","f","p",".","c","o","m">>,
    <<"u","s","a","t","o","d","a","y",".","c","o","m","/","f","a","c","t","-","c","h","e","c","k">>,
    <<"w","a","s","h","i","n","g","t","o","n","p","o","s","t",".","c","o","m","/","f","a","c","t","-","c","h","e","c","k","e","r">>,
    <<"l","e","a","d","s","t","o","r","i","e","s",".","c","o","m">>,
    <<"s","c","i","e","n","c","e","f","e","e","d","b","a","c","k",".","c","o">>,
    <<"h","e","a","l","t","h","f","e","e","d","b","a","c","k",".","o","r","g">>,
    <<"c","h","e","q","u","e","a","d","o",".","c","o","m">>,
    <<"a","o","s","f","a","t","o","s",".","o","r","g">>,
    <<"a","f","r","i","c","a","c","h","e","c","k",".","o","r","g">>,
    <<"b","o","o","m","l","i","v","e",".","i","n">>,
    <<"a","l","t","n","e","w","s",".","i","n">>,
    <<"e","u","v","s","d","i","s","i","n","f","o",".","e","u">>,
    <<"i","f","c","n",".","o","r","g">>,
    <<"f","l","a","c","k","c","h","e","c","k",".","o","r","g">>,
    <<"f","a","c","t","c","h","e","c","k","n","i",".","o","r","g">>,
    <<"t","h","e","f","e","r","r","e","t",".","s","c","o","t">>,
    <<"t","o","o","l","b","o","x",".","g","o","o","g","l","e",".","c","o","m","/","f","a","c","t","c","h","e","c","k">>,
    <<"a","r","c","h","i","v","e",".","o","r","g">> }

factCheckTerms == <<
    <<"f","a","c","t"," ","c","h","e","c","k">>, <<"f","a","c","t","-","c","h","e","c","k">>, <<"d","e","b","u","n","k">>, <<"v","e","r","i","f","y">>,
    <<"f","a","l","s","e">>, <<"t","r","u","e">>, <<"m","y","t","h">>, <<"c","l","a","i","m">> >>

\* ---------------------------------------------------------------- options
DefaultMaxSources == 5
DefaultRetryCount == 1
DefaultTimeout == 8000

\* a || d for a number a: the default replaces undefined and 0.
NumOr(a, d) == IF a = None \/ a = Some(0) THEN d ELSE a[1]

\* a !== false
NotFalse(a) == a # Some(FALSE)

\* a || false for a boolean a
BoolOr(a) == a = Some(TRUE)

ResolveConfig(opts) ==
  [ maxSources            |-> NumOr(opts.maxSources, DefaultMaxSources),
    includeFactCheckSites |-> NotFalse(opts.includeFactCheckSites),
    includeTrustedDomains |-> NotFalse(opts.includeTrustedDomains),
    retryCount            |-> NumOr(opts.retryCount, DefaultRetryCount),
    timeout               |-> NumOr(opts.timeout, DefaultTimeout),
    verbose               |-> BoolOr(opts.verbose) ]

GeneralLabel == <<"G","e","n","e","r","a","l">>
FactCheckLabel == <<"F","a","c","t"," ","C","h","e","c","k">>
FactCheckPrefix == <<"F","a","c","t"," ","c","h","e","c","k",":"," ">>

BuildQueries(cleaned, cfg) ==
  <<[q |-> cleaned, label |-> GeneralLabel]>>
    \o (IF cfg.includeFactCheckSites
          THEN <<[q |-> FactCheckPrefix \o cleaned, label |-> FactCheckLabel]>>
          ELSE <<>>)

\* ---------------------------------------------------------------- scoring
\* Scores are in half points.
HalfPoints(p) == 2 * p
TrustedBonus == HalfPoints(10)
FactCheckBonus == HalfPoints(5)
KeywordTitlePoints == HalfPoints(1)
\* 0.5
KeywordSnippetPoints == 1
TermTitlePoints == HalfPoints(2)
TermSnippetPoints == HalfPoints(1)

\* A string field of a raw record is truthy when present and not empty.
Truthy(f) == f # None /\ f # Some(<<>>)

\* .filter((r) => r.title && r.link)
Admitted(r) == Truthy(r.title) /\ Truthy(r.link)

RECURSIVE SumOver(_, _, _)
\* The points of the words of list found in text, a word counted once for
\* each time it is listed.
SumOver(list, text, points) ==
  IF list = <<>> THEN 0
  ELSE (IF Includes(text, Head(list)) THEN points ELSE 0)
         + SumOver(Tail(list), text, points)

\* r.title.toLowerCase() and r.snippet.toLowerCase() are looked at for every
\* word of list; the snippet only when the record has one.
TextPoints(list, r, titlePoints, snippetPoints) ==
  Once(LAMBDA words :
         Once(LAMBDA title : SumOver(words, title, titlePoints), ToLowerCase(r.title[1]))
           + (IF Truthy(r.snippet)
                THEN Once(LAMBDA snippet : SumOver(words, snippet, snippetPoints),
                          ToLowerCase(r.snippet[1]))
                ELSE 0),
       list)

TrustPoints(r, cfg) ==
  IF cfg.includeTrustedDomains
       /\ CleanDomain(URLHostname(r.link[1])) \in trustedFactCheckDomains
    THEN TrustedBonus ELSE 0

QueryTypePoints(r) == IF r.queryType = FactCheckLabel THEN FactCheckBonus ELSE 0

\* The body of the .map callback for a record whose link parses.
ScoreRecord(r, cleaned, cfg) ==
  LET keywords == Keywords(cleaned)
  IN
  [ title          |-> r.title[1],
    snippet        |-> IF Truthy(r.snippet) THEN r.snippet[1] ELSE <<>>,
    link           |-> r.link[1],
    source         |-> CleanDomain(URLHostname(r.link[1])),
    relevanceScore |-> TrustPoints(r, cfg) + QueryTypePoints(r)
                         + TextPoints(keywords, r, KeywordTitlePoints, KeywordSnippetPoints)
                         + TextPoints(factCheckTerms, r, TermTitlePoints, TermSnippetPoints),
    rank           |-> 0 ]

\* ---------------------------------------------------------------- ranking
\* An unstable insertion: x goes ahead of the entries of its own score.
InsertAheadOfEqual(s, x) ==
  LET ahead == {i \in 1..Len(s) : s[i].relevanceScore > x.relevanceScore}
      k == Cardinality(ahead)
  IN SubSeq(s, 1, k) \o <<x>> \o SubSeq(s, k + 1, Len(s))

\* Where Array.prototype.sort with (a, b) => b.relevanceScore - a.relevanceScore
\* puts x into the sorted list s: after every entry that does not score less
\* (the sort is stable).
InsertSorted(s, x) ==
  LET ahead == {i \in 1..Len(s) : s[i].relevanceScore >= x.relevanceScore}
      k == Cardinality(ahead)
  IN SubSeq(s, 1, k) \o <<x>> \o SubSeq(s, k + 1, Len(s))

RECURSIVE SortByScore(_)
SortByScore(s) ==
  IF s = <<>> THEN <<>>
  ELSE Once(LAMBDA sorted : InsertSorted(sorted, s[Len(s)]),
            SortByScore(SubSeq(s, 1, Len(s) - 1)))

\* A slice that keeps one entry too many.
SliceOneMore(s, n) == SubSeq(s, 1, IF n + 1 > Len(s) THEN Len(s) ELSE n + 1)

\* Array.prototype.slice(0, n)
Slice(s, n) ==
  LET end == IF n < 0 THEN (IF Len(s) + n < 0 THEN 0 ELSE Len(s) + n)
             ELSE (IF n > Len(s) THEN Len(s) ELSE n)
  IN SubSeq(s, 1, end)

\* .map((r, index) => ({ ...r, rank: index + 1 }))
AssignRanks(s) == [i \in 1..Len(s) |-> [s[i] EXCEPT !.rank = i]]

\* .sort(...).slice(0, config.maxSources).map(...): each method runs once, on
\* the array the method before it returned.
Rank(scored, cfg) ==
  Once(LAMBDA mapped :
         Once(LAMBDA sorted :
                Once(LAMBDA sliced : AssignRanks(sliced), Slice(sorted, cfg.maxSources)),
              SortByScore(mapped)),
       scored)

ScoreAll(admitted, cleaned, cfg) ==
  Once(LAMBDA rs : [i \in 1..Len(rs) |-> ScoreRecord(rs[i], cleaned, cfg)], admitted)

\* The filter-map-sort-slice-map chain: it throws when new URL throws for an
\* admitted record, and yields the ranked list otherwise.
ChainThrows(all) ==
  \E i \in 1..Len(all) : Admitted(all[i]) /\ ~URLParses(all[i].link[1])

ProcessResults(all, cleaned, cfg) ==
  IF ChainThrows(all)
    THEN [threw |-> TRUE, value |-> <<>>]
    ELSE [threw |-> FALSE,
          value |-> Rank(ScoreAll(SelectSeq(all, Admitted), cleaned, cfg), cfg)]

\* ------------------------------------------------------- the query loop
\* results = (response.data.organic_results || []).map(r => ({...r, queryType}))
TagResults(organic, label) ==
  LET rs == IF organic = None THEN <<>> ELSE organic[1]
  IN [i \in 1..Len(rs) |->
        [title |-> rs[i].title, snippet |-> rs[i].snippet, link |-> rs[i].link,
         queryType |-> label]]

\* What one iteration of the loop leaves in allResults: the request resolved
\* (resp.ok) or was rejected and caught by the inner catch.
LoopBody(all, queryObj, resp) ==
  IF resp.ok THEN TagResults(resp.organic, queryObj.label) ELSE all

\* No outer try around the filter-map-sort chain.
HandlerWithoutOuterTry(site) ==
  CASE site = "request" -> "inner"
    [] site = "process" -> "caller"

\* The try block an exception thrown at a site of fetchSources lands in:
\* the request and its mapping sit in the inner try of the loop, the
\* filter-map-sort chain in the outer try only.
HandlerOf(site) ==
  CASE site = "request" -> "inner"
    [] site = "process" -> "outer"

\* if (options.currentRetry && options.currentRetry < config.retryCount)
ShouldRetry(opts, cfg) ==
  /\ opts.currentRetry # None
  /\ opts.currentRetry # Some(0)
  /\ opts.currentRetry[1] < cfg.retryCount

\* A retry that forgets to count the attempt.
RetryOptionsUncounted(opts) == opts

\* { ...options, currentRetry: (options.currentRetry || 0) + 1 }
RetryOptions(opts) == [opts EXCEPT !.currentRetry = Some(NumOr(opts.currentRetry, 0) + 1)]

\* ----------------------------------------------------------------- inputs
FlatEarth == <<"F","l","a","t"," ","E","a","r","t","h","!">>
IsItSo == <<"I","s"," ","i","t"," ","s","o","?">>

Trusted == [title |-> Some(<<"F","l","a","t"," ","E","a","r","t","h"," ","d","e","b","u","n","k">>), snippet |-> Some(<<"f","a","l","s","e"," ","c","l","a","i","m">>),
            link |-> Some(<<"h","t","t","p","s",":","/","/","w","w","w",".","s","n","o","p","e","s",".","c","o","m","/","a">>)]
InnerWww == [title |-> Some(<<"F","l","a","t"," ","E","a","r","t","h"," ","d","e","b","u","n","k">>), snippet |-> Some(<<"f","a","l","s","e"," ","c","l","a","i","m">>),
             link |-> Some(<<"h","t","t","p","s",":","/","/","s","n","o","p","e","s",".","w","w","w",".","c","o","m","/","a">>)]
Untrusted == [title |-> Some(<<"F","l","a","t"," ","E","a","r","t","h"," ","d","e","b","u","n","k">>), snippet |-> Some(<<"f","a","l","s","e"," ","c","l","a","i","m">>),
              link |-> Some(<<"h","t","t","p","s",":","/","/","c","d","c",".","g","o","v","/","a">>)]
NoSnippet == [title |-> Some(<<"E","a","r","t","h">>), snippet |-> None,
              link |-> Some(<<"h","t","t","p","s",":","/","/","W","W","W",".","C","D","C",".","g","o","v">>)]
BadLink == [title |-> Some(<<"E","a","r","t","h"," ","m","y","t","h">>), snippet |-> None,
            link |-> Some(<<"s","n","o","p","e","s",".","c","o","m","/","d">>)]
NoLink == [title |-> Some(<<"E","a","r","t","h">>), snippet |-> None, link |-> None]

RECURSIVE SeqsUpTo(_, _)
SeqsUpTo(S, n) ==
  IF n = 0 THEN {<<>>}
  ELSE LET shorter == SeqsUpTo(S, n - 1)
       IN shorter \cup {Append(s, x) : s \in shorter, x \in S}

\* What the provider answers to one request: a failure of the request, or a
\* body with or without organic_results, drawn from the pages it indexes.
FailedResponse == [ok |-> FALSE, organic |-> None]
Responses(indexed) ==
  {FailedResponse}
    \cup {[ok |-> TRUE, organic |-> None]}
    \cup {[ok |-> TRUE, organic |-> Some(rs)] : rs \in SeqsUpTo(indexed, MaxResults)}

OptNat(max) == {None} \cup {Some(n) : n \in 0..max}
OptBool == {None, Some(TRUE), Some(FALSE)}

\* Calls that leave the retry options alone, against a provider that indexes
\* well-formed pages and a page without link.
RankingOptions ==
  [ maxSources            : OptNat(MaxSourcesOpt),
    includeFactCheckSites : {None, Some(FALSE)},
    includeTrustedDomains : {None, Some(FALSE)},
    retryCount            : {None},
    timeout               : {None},
    verbose               : {None},
    currentRetry          : {None} ]
RankingPages == {Trusted, InnerWww, NoSnippet, NoLink}

\* Calls that set the retry options, against a provider that indexes one
\* well-formed and one malformed page.
RetryingOptions ==
  [ maxSources            : {None},
    includeFactCheckSites : OptBool,
    includeTrustedDomains : {Some(TRUE)},
    retryCount            : OptNat(MaxRetryOpt),
    timeout               : {Some(DefaultTimeout)},
    verbose               : {None, Some(TRUE)},
    currentRetry          : OptNat(MaxCurrentRetryOpt) ]
RetryingPages == {Untrusted, BadLink}

\* ------------------------------------------------------------ the machine
\* fetchSources(c, opts) up to its first request: lines 53-109.
Enter(c, opts, d) ==
  /\ UNCHANGED pages
  /\ claim' = c
  /\ options' = opts
  /\ config' = ResolveConfig(opts)
  /\ cleanedClaim' = CleanClaim(c)
  /\ searchQueries' = BuildQueries(CleanClaim(c), ResolveConfig(opts))
  /\ qi' = 1
  /\ allResults' = <<>>
  /\ responses' = <<>>
  /\ pc' = "search"
  /\ outcome' = "pending"
  /\ result' = <<>>
  /\ depth' = d

InitCall(claims, optionSet, indexed) ==
  \E c \in claims, opts \in optionSet :
    /\ pages = indexed
    /\ claim = c
    /\ options = opts
    /\ config = ResolveConfig(opts)
    /\ cleanedClaim = CleanClaim(c)
    /\ searchQueries = BuildQueries(CleanClaim(c), ResolveConfig(opts))
    /\ qi = 1
    /\ allResults = <<>>
    /\ responses = <<>>
    /\ pc = "search"
    /\ outcome = "pending"
    /\ result = <<>>
    /\ depth = 0

RetryingInit == InitCall({IsItSo}, RetryingOptions, RetryingPages)

Init ==
  \/ InitCall({FlatEarth}, RankingOptions, RankingPages)
  \/ RetryingInit

AfterQuery == IF qi = Len(searchQueries) THEN "process" ELSE "search"

\* One request of the loop settles.
Search ==
  /\ pc = "search"
  /\ \E resp \in Responses(pages) :
       /\ responses' = Append(responses, resp)
       /\ IF resp.ok \/ HandlerOf("request") = "inner"
            THEN /\ allResults' = LoopBody(allResults, searchQueries[qi], resp)
                 /\ qi' = qi + 1
                 /\ pc' = AfterQuery
            ELSE /\ pc' = "catch"
                 /\ UNCHANGED <<allResults, qi>>
  /\ UNCHANGED <<pages, claim, options, config, cleanedClaim, searchQueries, outcome, result, depth>>

\* Lines 138-183: the chain yields the ranked list, which is returned.
Return ==
  /\ pc = "process"
  /\ ~ChainThrows(allResults)
  /\ result' = ProcessResults(allResults, cleanedClaim, config).value
  /\ pc' = "done"
  /\ outcome' = "resolved"
  /\ UNCHANGED <<pages, claim, options, config, cleanedClaim, searchQueries, qi,
                 allResults, responses, depth>>

\* Lines 138-180: new URL throws inside the chain; the exception lands in the
\* try block around it, or leaves fetchSources.
Throw ==
  /\ pc = "process"
  /\ ChainThrows(allResults)
  /\ pc' = IF HandlerOf("process") = "outer" THEN "catch" ELSE "done"
  /\ outcome' = IF HandlerOf("process") = "outer" THEN outcome ELSE "rejected"
  /\ UNCHANGED <<pages, claim, options, config, cleanedClaim, searchQueries, qi,
                 allResults, responses, result, depth>>

\* Lines 184-193: the outer catch calls fetchSources again.
Retry ==
  /\ pc = "catch"
  /\ ShouldRetry(options, config)
  /\ Enter(claim, RetryOptions(options), depth + 1)

\* Lines 184-195: the outer catch gives up.
GiveUp ==
  /\ pc = "catch"
  /\ ~ShouldRetry(options, config)
  /\ result' = <<>>
  /\ pc' = "done"
  /\ outcome' = "resolved"
  /\ UNCHANGED <<pages, claim, options, config, cleanedClaim, searchQueries, qi,
                 allResults, responses, depth>>

Next == Search \/ Return \/ Throw \/ Retry \/ GiveUp

Spec == Init /\ [][Next]_vars

\* The calls that set the retry options, under fairness: the requests
\* complete or time out and the code between them runs, so a call that can
\* take a step takes it.
FairSpec == RetryingInit /\ [][Next]_vars /\ WF_vars(Next)

\* ----------------------------------------------------------------- claims
Returned == pc = "done" /\ outcome = "resolved"

LoopDone == pc = "process"

\* The admitted records of allResults, in discovery order.
AdmittedResults == SelectSeq(allResults, Admitted)

IsPrefix(s, t) == Len(s) <= Len(t) /\ SubSeq(t, 1, Len(s)) = s

Unranked(s) == [i \in 1..Len(s) |-> [s[i] EXCEPT !.rank = 0]]

C2_NeverThrows ==
  /\ outcome # "rejected"
  /\ pc = "done" => outcome = "resolved"
  /\ (pc = "done" /\ \A i \in 1..Len(responses) : ~responses[i].ok) => result = <<>>

\* Both requests of a two-query call failed and the call returned.
C2_Witness ==
  /\ Returned
  /\ Len(responses) = 2
  /\ \A i \in 1..Len(responses) : ~responses[i].ok
  /\ result = <<>>

RECURSIVE Flatten(_, _)
\* The tagged results of the requests that resolved, in query order.
Flatten(queries, resps) ==
  IF resps = <<>> THEN <<>>
  ELSE (IF Head(resps).ok THEN TagResults(Head(resps).organic, Head(queries).label) ELSE <<>>)
         \o Flatten(Tail(queries), Tail(resps))

\* C3: after the query loop the combined list is the concatenation, in query
\* order, of the tagged results of every query that succeeded.
C3_Flattened == LoopDone => allResults = Flatten(searchQueries, responses)

RECURSIVE RunLoop(_, _, _)
\* allResults after the loop has run over queries with the responses resps.
RunLoop(all, queries, resps) ==
  IF resps = <<>> THEN all
  ELSE RunLoop(LoopBody(all, Head(queries), Head(resps)), Tail(queries), Tail(resps))

\* The responses with every failed request answering an empty list instead.
FailuresAsEmpty(resps) ==
  [i \in 1..Len(resps) |->
     IF resps[i].ok THEN resps[i] ELSE [ok |-> TRUE, organic |-> Some(<<>>)]]

\* C6: a failed request is absorbed: it never reaches the outer catch, and
\* the combined list is what it would be had the failed request answered an
\* empty list.
C6_FailureIsolated ==
  /\ pc = "catch" => Len(responses) = Len(searchQueries)
  /\ LoopDone => allResults = RunLoop(<<>>, searchQueries, FailuresAsEmpty(responses))

WellFormed(r) == Admitted(r) /\ URLParses(r.link[1])

\* C4: a record whose link does not parse is dropped alone: the call returns
\* the ranking of the other admitted records of the batch.
C4_MalformedDropped ==
  Returned =>
    result = ProcessResults(SelectSeq(allResults, WellFormed), cleanedClaim, config).value

\* C5: when the unit fails with currentRetry below retryCount, the unit is
\* invoked again with the same claim and currentRetry one higher, the other
\* options unchanged; otherwise the call returns the empty list, not invoked
\* again.
C5_RetryRule ==
  [][pc = "catch" =>
       IF options.currentRetry # None /\ options.currentRetry[1] < config.retryCount
         THEN /\ depth' = depth + 1
              /\ pc' = "search"
              /\ claim' = claim
              /\ options' = [options EXCEPT !.currentRetry = Some(options.currentRetry[1] + 1)]
         ELSE /\ depth' = depth
              /\ pc' = "done"
              /\ result' = <<>>]_vars

\* The scored records of the batch, unranked, in discovery order.
Scored == ScoreAll(AdmittedResults, cleanedClaim, config)

\* The entries of s that score v, in the order of s.
WithScore(s, v) == SelectSeq(s, LAMBDA x : x.relevanceScore = v)
Scores(s) == {s[i].relevanceScore : i \in 1..Len(s)}

\* C7: the returned list is ordered by relevanceScore, non-increasing; the
\* entries of one score keep their discovery order; and the list is cut from
\* the front of the sorted batch.
C7_StableDescending ==
  (Returned /\ ~ChainThrows(allResults)) =>
    \A scored \in {Scored} :
      /\ \A i \in 1..Len(result), j \in 1..Len(result) :
           i < j => result[i].relevanceScore >= result[j].relevanceScore
      /\ \A v \in Scores(scored) :
           IsPrefix(WithScore(Unranked(result), v), WithScore(scored, v))
      /\ Len(result) = (IF Len(scored) < config.maxSources THEN Len(scored)
                        ELSE config.maxSources)
      /\ \A v \in Scores(scored), w \in Scores(result) :
           v > w => Len(WithScore(result, v)) = Len(WithScore(scored, v))

\* Two different records of one score were returned, one ranked ahead of the
\* other.
C7_Witness ==
  /\ Returned
  /\ \E i \in 1..Len(result), j \in 1..Len(result) :
       /\ i < j
       /\ result[i].relevanceScore = result[j].relevanceScore
       /\ result[i].link # result[j].link

\* The hostname with a leading "www." stripped.
StripLeadingWww(hostname) ==
  IF StartsWith(hostname, Www) THEN SubSeq(hostname, Len(Www) + 1, Len(hostname))
  ELSE hostname

TrustedByDomain(r) == StripLeadingWww(URLHostname(r.link[1])) \in trustedFactCheckDomains

ScoreOf(r) == ScoreRecord(r, cleanedClaim, config).relevanceScore

\* C8: of two records alike in title, snippet and query label, one on a
\* trusted domain and one not, the trusted one scores 10 points higher when
\* includeTrustedDomains is true, and the same when it is false.
C8_TrustedBonus ==
  LoopDone =>
    \A i \in 1..Len(allResults), j \in 1..Len(allResults) :
      LET a == allResults[i]
          b == allResults[j]
      IN (/\ WellFormed(a) /\ WellFormed(b)
          /\ a.title = b.title /\ a.snippet = b.snippet /\ a.queryType = b.queryType
          /\ TrustedByDomain(a) /\ ~TrustedByDomain(b))
         => ScoreOf(a) - ScoreOf(b)
              = (IF config.includeTrustedDomains THEN HalfPoints(10) ELSE 0)

\* C9: the derived configuration has maxSources > 0 and retryCount >= 0; an
\* omitted field takes its default, a supplied value in range is kept.
C9_ConfigInvariant ==
  /\ config.maxSources > 0
  /\ config.retryCount >= 0
  /\ options.maxSources = None => config.maxSources = DefaultMaxSources
  /\ options.retryCount = None => config.retryCount = DefaultRetryCount
  /\ (options.maxSources # None /\ options.maxSources[1] > 0)
       => config.maxSources = options.maxSources[1]
  /\ (options.retryCount # None /\ options.retryCount[1] >= 0)
       => config.retryCount = options.retryCount[1]

====
